---- MODULE Spec2Model ----
(***************************************************************************)
(* handler.py: the RunPod job adapter that wraps the Node.js script.       *)
(*                                                                         *)
(* One handler(job) call per element of Calls; the hosting worker may      *)
(* dispatch several of them concurrently.  A call logs the job, extracts   *)
(* job['input'], serializes it, runs `node handler.js <json>` under        *)
(* subprocess.run(capture_output, text, check, timeout=900) and maps the   *)
(* outcome to the value it returns.                                        *)
(***************************************************************************)
EXTENDS Integers, Sequences, FiniteSets, TLC

VARIABLES
    node_script_path,   \* module global, handler.py:9
    state,              \* state[c]: where call c is (lifecycle of spec 4.1)
    job,                \* job[c]: the job passed to call c
    command,            \* command[c]: the local `command`, handler.py:30
    invocations,        \* invocations[c]: calls of subprocess.run made by c
    child,              \* child[c]: the child process of call c
    result              \* result[c]: the value call c returned

vars == <<node_script_path, state, job, command, invocations, child, result>>

(***************************************************************************)
(* Bounds and program constants.                                           *)
(***************************************************************************)
NumCalls == 2           \* handler calls the worker dispatches

TIMEOUT == 900          \* subprocess.run(timeout=900)

Calls == 1..NumCalls

(***************************************************************************)
(* Python values.  A value is a record tagged with its Python type; a dict *)
(* is the sequence of its items in insertion order.  PyBytes stands for    *)
(* any object json.dumps cannot encode.                                    *)
(***************************************************************************)
PyNone == [t |-> "NoneType"]
PyBool(b) == [t |-> "bool", b |-> b]
PyInt(n) == [t |-> "int", n |-> n]
PyStr(s) == [t |-> "str", s |-> s]
PyList(items) == [t |-> "list", items |-> items]
PyDict(pairs) == [t |-> "dict", pairs |-> pairs]
PyBytes == [t |-> "bytes"]

Item(k, v) == [k |-> k, v |-> v]

\* No value bound to a name yet (no job, nothing returned).
Unset == [t |-> "unset"]

\* dict.get(key, default): the value of the first item with that key.
Get(d, key, default) ==
    LET hits == {i \in DOMAIN d.pairs : d.pairs[i].k = key}
    IN  IF hits = {} THEN default
        ELSE d.pairs[CHOOSE i \in hits : \A h \in hits : i <= h].v

\* `key in d`; what the properties call a present key.
HasKey(d, key) == \E i \in DOMAIN d.pairs : d.pairs[i].k = key

\* Python truthiness of a value (bool(v)); what the properties call falsy.
Truthy(v) ==
    CASE v.t = "NoneType" -> FALSE
      [] v.t = "bool" -> v.b
      [] v.t = "int" -> v.n # 0
      [] v.t = "str" -> v.s # ""
      [] v.t = "list" -> v.items # <<>>
      [] v.t = "dict" -> v.pairs # <<>>
      [] OTHER -> TRUE

(***************************************************************************)
(* json.dumps and json.loads.                                              *)
(***************************************************************************)
RECURSIVE Serializable(_)
Serializable(v) ==
    CASE v.t = "list" -> \A i \in DOMAIN v.items : Serializable(v.items[i])
      [] v.t = "dict" -> \A i \in DOMAIN v.pairs : Serializable(v.pairs[i].v)
      [] v.t = "bytes" -> FALSE
      [] OTHER -> TRUE

RECURSIVE Join(_, _)
Join(strs, sep) ==
    IF strs = <<>> THEN ""
    ELSE IF Len(strs) = 1 THEN strs[1]
    ELSE strs[1] \o sep \o Join(Tail(strs), sep)

Quote(s) == "\"" \o s \o "\""

\* The JSON text of a serializable value with the given item and key
\* separators.  The strings of the model hold no character that needs an
\* escape.
RECURSIVE JsonText(_, _, _)
JsonText(v, isep, ksep) ==
    CASE v.t = "NoneType" -> "null"
      [] v.t = "bool" -> IF v.b THEN "true" ELSE "false"
      [] v.t = "int" -> ToString(v.n)
      [] v.t = "str" -> Quote(v.s)
      [] v.t = "list" ->
            "[" \o Join([i \in DOMAIN v.items |->
                            JsonText(v.items[i], isep, ksep)], isep) \o "]"
      [] v.t = "dict" ->
            "{" \o Join([i \in DOMAIN v.pairs |->
                            Quote(v.pairs[i].k) \o ksep
                                \o JsonText(v.pairs[i].v, isep, ksep)], isep) \o "}"

\* json.dumps(v): the text with Python's default separators, or TypeError.
Dumps(v) ==
    IF Serializable(v)
    THEN [raised |-> FALSE, text |-> JsonText(v, ", ", ": ")]
    ELSE [raised |-> TRUE,
          message |-> "Object of type bytes is not JSON serializable"]

\* The values a standard output of the model can denote.
JsonValues ==
    { PyNone, PyBool(TRUE), PyInt(0), PyStr("done"),
      PyList(<<>>), PyDict(<<>>),
      PyDict(<<Item("ok", PyBool(TRUE))>>),
      PyDict(<<Item("error", PyStr("No input provided in the job"))>>) }

\* The texts json.loads reads as v: either separator style, with or
\* without the newline console.log appends.
Renderings(v) ==
    LET py == JsonText(v, ", ", ": ")
        js == JsonText(v, ",", ":")
    IN  {py, js, py \o "\n", js \o "\n"}

\* json.loads(text): the value, or JSONDecodeError.
Loads(text) ==
    LET hits == {v \in JsonValues : text \in Renderings(v)}
    IN  IF hits = {} THEN [raised |-> TRUE]
        ELSE [raised |-> FALSE, value |-> CHOOSE v \in hits : TRUE]

(***************************************************************************)
(* The environment: the jobs the worker passes, and what a child process   *)
(* may do.                                                                 *)
(***************************************************************************)
JobId == Item("id", PyStr("job-1"))

Prompt == PyDict(<<Item("prompt", PyStr("hi"))>>)

\* Values of job['input']: None, the falsy values, and a truthy one.
Inputs ==
    { PyNone, PyInt(0), PyBool(FALSE), PyStr(""), PyList(<<>>), PyDict(<<>>),
      Prompt }

\* Jobs: without 'input', with each input, and two that carry an object
\* json.dumps cannot encode.
Jobs ==
    {PyDict(<<JobId>>)}
        \cup {PyDict(<<JobId, Item("input", i)>>) : i \in Inputs}
        \cup { PyDict(<<JobId, Item("input", Prompt), Item("blob", PyBytes)>>),
               PyDict(<<JobId, Item("blob", PyBytes)>>) }

\* A captured stream: bytes that decode to `text`, or bytes that do not
\* decode in the locale's encoding.
Text(s) == [utf8 |-> TRUE, text |-> s]
BadBytes == [utf8 |-> FALSE]

ExitCodes == {0, 1, 2}
Stdouts ==
    {Text("{\"ok\":true}\n"), Text("null"), Text("hello"), Text(""), BadBytes}
Stderrs == {Text(""), Text("boom"), BadBytes}

\* How a child may end by itself: exit code and the bytes it wrote.
Outcomes == [returncode : ExitCodes, stdout : Stdouts, stderr : Stderrs]

\* What the script does with its argument.  For the prompt it may end in
\* any way; for the degenerate inputs the model keeps a plain success and a
\* plain failure.
PlainOutcomes ==
    { [returncode |-> 0, stdout |-> Text("{\"ok\":true}\n"), stderr |-> Text("")],
      [returncode |-> 2, stdout |-> Text(""), stderr |-> Text("boom")] }

Behaviours(argv) ==
    IF argv[3] = JsonText(Prompt, ", ", ": ") THEN Outcomes ELSE PlainOutcomes

\* Where a call is: the lifecycle of spec 4.1, with the error taxonomy of
\* spec 7 as the kinds of failure, and Raised for a call that ended by an
\* exception leaving handler().
FailedStates ==
    { "MissingInput", "ProcessNonZeroExit", "ProcessTimeout", "OutputNotJSON",
      "UnexpectedAdapterError" }
ReturnedStates == {"Succeeded"} \cup FailedStates

NoChild == [status |-> "none"]

(***************************************************************************)
(* The values handler() returns.                                           *)
(***************************************************************************)
ErrorRecord(message) == PyDict(<<Item("error", PyStr(message))>>)

MissingInputResult == ErrorRecord("No input provided in the job")

NotJsonResult(stdout) ==
    PyDict(<<Item("error", PyStr("Node.js script did not return valid JSON")),
             Item("raw_output", PyStr(stdout))>>)

FailedResult(returncode, stderr) ==
    PyDict(<<Item("error", PyStr("Node.js script failed with exit code "
                                    \o ToString(returncode))),
             Item("stderr", PyStr(stderr))>>)

TimeoutResult(timeout) ==
    ErrorRecord("Node.js script timed out after " \o ToString(timeout)
                    \o " seconds")

HandlerErrorResult(message) == ErrorRecord("Python handler error: " \o message)

\* str(e) of the exceptions subprocess.run raises besides CalledProcessError
\* and TimeoutExpired.
LaunchErrorMessage == "[Errno 2] No such file or directory: 'node'"
DecodeErrorMessage ==
    "'utf-8' codec can't decode byte 0xff in position 0: invalid start byte"

(***************************************************************************)
(* Module initialisation, handler.py:7-12.                                 *)
(***************************************************************************)
script_dir == "/app"

PathJoin(dir, name) == dir \o "/" \o name

Init ==
    /\ node_script_path = PathJoin(script_dir, "handler.js")
    /\ state = [c \in Calls |-> "Idle"]
    /\ job = [c \in Calls |-> Unset]
    /\ command = [c \in Calls |-> <<>>]
    /\ invocations = [c \in Calls |-> 0]
    /\ child = [c \in Calls |-> NoChild]
    /\ result = [c \in Calls |-> Unset]

(***************************************************************************)
(* handler(job), from its entry to the call of subprocess.run.             *)
(***************************************************************************)
\* The local job_input.
JobInput(j) == Get(j, "input", PyNone)

\* print(..., json.dumps(job, indent=2)) raises TypeError.
LogRaises(j) == ~Serializable(j)

\* Variants of the test: `if not job_input`, and `'input' not in job`.
InputFalsy(j) == ~Truthy(JobInput(j))
InputKeyAbsent(j) == ~HasKey(j, "input")

\* The test `job_input is None`.
InputMissing(j) == JobInput(j) = PyNone

Command(path, j) == <<"node", path, Dumps(JobInput(j)).text>>

Handle(c, j) ==
    /\ state[c] = "Idle"
    /\ job' = [job EXCEPT ![c] = j]
    /\ IF LogRaises(j)
       THEN /\ state' = [state EXCEPT ![c] = "Raised"]
            /\ UNCHANGED <<command, invocations, result>>
       ELSE IF InputMissing(j)
       THEN /\ state' = [state EXCEPT ![c] = "MissingInput"]
            /\ result' = [result EXCEPT ![c] = MissingInputResult]
            /\ UNCHANGED <<command, invocations>>
       ELSE IF Dumps(JobInput(j)).raised
       THEN /\ state' = [state EXCEPT ![c] = "UnexpectedAdapterError"]
            /\ result' = [result EXCEPT ![c] =
                            HandlerErrorResult(Dumps(JobInput(j)).message)]
            /\ UNCHANGED <<command, invocations>>
       ELSE /\ state' = [state EXCEPT ![c] = "Invoking"]
            /\ command' = [command EXCEPT ![c] = Command(node_script_path, j)]
            /\ invocations' = [invocations EXCEPT ![c] = @ + 1]
            /\ UNCHANGED result
    /\ UNCHANGED <<node_script_path, child>>

(***************************************************************************)
(* subprocess.run(command, capture_output=True, text=True, check=True,     *)
(* timeout=900) and what handler() makes of its outcome.                   *)
(***************************************************************************)
\* Popen starts the child.
Launch(c) ==
    /\ state[c] = "Invoking"
    /\ child[c].status = "none"
    /\ child' = [child EXCEPT ![c] = [status |-> "running", argv |-> command[c]]]
    /\ UNCHANGED <<node_script_path, state, job, command, invocations, result>>

\* Popen raises OSError (node is not on the PATH, the argument is too
\* long): caught by `except Exception`.
LaunchFails(c) ==
    /\ state[c] = "Invoking"
    /\ child[c].status = "none"
    /\ state' = [state EXCEPT ![c] = "UnexpectedAdapterError"]
    /\ result' = [result EXCEPT ![c] = HandlerErrorResult(LaunchErrorMessage)]
    /\ UNCHANGED <<node_script_path, job, command, invocations, child>>

\* The child p after it exited by itself with outcome o.
Exited(p, o) ==
    [status |-> "exited", argv |-> p.argv, returncode |-> o.returncode,
     stdout |-> o.stdout, stderr |-> o.stderr]

\* What handler() returns once communicate() has read the streams of the
\* exited child p.
Outcome(p) ==
    IF ~p.stdout.utf8 \/ ~p.stderr.utf8
    THEN \* text=True decodes strictly: UnicodeDecodeError, `except Exception`
         [state |-> "UnexpectedAdapterError",
          result |-> HandlerErrorResult(DecodeErrorMessage)]
    ELSE IF p.returncode # 0
    THEN \* check=True: CalledProcessError
         [state |-> "ProcessNonZeroExit",
          result |-> FailedResult(p.returncode, p.stderr.text)]
    ELSE IF Loads(p.stdout.text).raised
    THEN [state |-> "OutputNotJSON", result |-> NotJsonResult(p.stdout.text)]
    ELSE [state |-> "Succeeded", result |-> Loads(p.stdout.text).value]

\* Variant: the return value is kept in a module global that every call
\* reads its result from.
ChildExitsGlobalResult(c, o) ==
    /\ state[c] = "Invoking"
    /\ child[c].status = "running"
    /\ o \in Behaviours(child[c].argv)
    /\ child' = [child EXCEPT ![c] = Exited(child[c], o)]
    /\ state' = [state EXCEPT ![c] = Outcome(Exited(child[c], o)).state]
    /\ result' = [d \in Calls |->
                    IF d = c \/ state[d] \in ReturnedStates
                    THEN Outcome(Exited(child[c], o)).result
                    ELSE result[d]]
    /\ UNCHANGED <<node_script_path, job, command, invocations>>

\* The child exits by itself before the timeout; communicate() returns its
\* streams to the blocked call, which returns what it makes of them.
ChildExits(c, o) ==
    /\ state[c] = "Invoking"
    /\ child[c].status = "running"
    /\ o \in Behaviours(child[c].argv)
    /\ child' = [child EXCEPT ![c] = Exited(child[c], o)]
    /\ state' = [state EXCEPT ![c] = Outcome(Exited(child[c], o)).state]
    /\ result' = [result EXCEPT ![c] = Outcome(Exited(child[c], o)).result]
    /\ UNCHANGED <<node_script_path, job, command, invocations>>

\* Variant: the expired child is left running.
LeftRunning(p) == p

\* What run() does to the child when the timeout expires: kill and reap.
Killed(p) == [status |-> "killed", argv |-> p.argv]

\* The timeout elapses with the child still running: run() kills the
\* child and raises TimeoutExpired, handler() returns the timeout record.
TimesOut(c) ==
    /\ state[c] = "Invoking"
    /\ child[c].status = "running"
    /\ child' = [child EXCEPT ![c] = Killed(child[c])]
    /\ state' = [state EXCEPT ![c] = "ProcessTimeout"]
    /\ result' = [result EXCEPT ![c] = TimeoutResult(TIMEOUT)]
    /\ UNCHANGED <<node_script_path, job, command, invocations>>

Next ==
    \E c \in Calls :
        \/ \E j \in Jobs : Handle(c, j)
        \/ Launch(c)
        \/ LaunchFails(c)
        \/ \E o \in Outcomes : ChildExits(c, o)
        \/ TimesOut(c)

Spec == Init /\ [][Next]_vars

(***************************************************************************)
(* Properties.                                                             *)
(***************************************************************************)
Finished(c) == state[c] \notin {"Idle", "Invoking"}
Returned(c) == state[c] \in ReturnedStates

\* job['input'] where the key is present, Unset where it is not.
InputOf(c) == Get(job[c], "input", Unset)

NullInput(c) == InputOf(c) = PyNone
FalsyInput(c) == InputOf(c) \notin {Unset, PyNone} /\ ~Truthy(InputOf(c))

\* The result is the missing-input record and no subprocess was started.
AnsweredMissing(c) ==
    /\ Returned(c)
    /\ result[c] = PyDict(<<Item("error", PyStr("No input provided in the job"))>>)
    /\ invocations[c] = 0
    /\ child[c].status = "none"

C2_NullForwarded ==
    \A c \in Calls :
        Returned(c) /\ NullInput(c) =>
            /\ ~AnsweredMissing(c)
            /\ invocations[c] = 1
            /\ command[c] = <<"node", node_script_path, "null">>

\* C2, amended: for a job whose 'input' is None, handle treats the input as
\* missing: it never invokes the subprocess, and the result it returns is
\* the missing-input record.
C2_NullTreatedAsMissing ==
    \A c \in Calls :
        state[c] # "Idle" /\ NullInput(c) =>
            /\ invocations[c] = 0
            /\ command[c] = <<>>
            /\ child[c].status = "none"
            /\ Returned(c) => state[c] = "MissingInput" /\ AnsweredMissing(c)

\* C2 witness: a job with 'input': None has been answered.
C2_Witness ==
    \E c \in Calls :
        state[c] = "MissingInput" /\ HasKey(job[c], "input") /\ NullInput(c)

\* C3: every call that ended returned a result; none ended by an exception
\* leaving handler().
C3_AlwaysReturns ==
    \A c \in Calls : Finished(c) => Returned(c) /\ result[c] # Unset

\* C4: for every job with an input, exactly one subprocess.run call was made
\* by the time the call ended, and never more than one at any time.
C4_ExactlyOneInvocation ==
    \A c \in Calls :
        /\ invocations[c] <= 1
        /\ Finished(c) /\ InputOf(c) \notin {Unset, PyNone} => invocations[c] = 1

\* C5: when the child exited with status 0 and its standard output parses
\* as JSON, the result is the parsed value, whatever was written to
\* standard error.
C5_ParsedValueReturned ==
    \A c \in Calls :
        ( /\ child[c].status = "exited"
          /\ child[c].returncode = 0
          /\ child[c].stdout.utf8
          /\ ~Loads(child[c].stdout.text).raised )
            => result[c] = Loads(child[c].stdout.text).value

\* C6: when the child exited with status 0 and its standard output does not
\* parse as JSON, the result is the record with exactly the keys error and
\* raw_output, raw_output being the captured standard output.
C6_RawOutputReturned ==
    \A c \in Calls :
        ( /\ child[c].status = "exited"
          /\ child[c].returncode = 0
          /\ child[c].stdout.utf8
          /\ Loads(child[c].stdout.text).raised )
            => result[c] =
                 PyDict(<<Item("error",
                               PyStr("Node.js script did not return valid JSON")),
                          Item("raw_output", PyStr(child[c].stdout.text))>>)

\* C7: when the child exited with a nonzero status, the result is the
\* record with exactly the keys error, naming the exit code, and stderr,
\* the captured standard error; standard output plays no part.
C7_ExitCodeReported ==
    \A c \in Calls :
        ( /\ child[c].status = "exited"
          /\ child[c].returncode # 0
          /\ child[c].stderr.utf8 )
            => result[c] =
                 PyDict(<<Item("error",
                               PyStr("Node.js script failed with exit code "
                                        \o ToString(child[c].returncode))),
                          Item("stderr", PyStr(child[c].stderr.text))>>)

\* C8: whenever a call stops waiting for a child that has not exited, the
\* child has been killed and the call returned the record whose single key
\* error says the script timed out after 900 seconds.
C8_TimeoutKillsAndReports ==
    [][ \A c \in Calls :
            ( /\ state[c] = "Invoking"
              /\ child[c].status = "running"
              /\ state'[c] # "Invoking"
              /\ child'[c].status # "exited" )
                => /\ child'[c].status = "killed"
                   /\ result'[c] =
                        PyDict(<<Item("error",
                            PyStr("Node.js script timed out after 900 seconds"))>>)
      ]_vars

\* C8 witness: a call returned the timeout record and its child is killed.
C8_Witness ==
    \E c \in Calls :
        /\ state[c] = "ProcessTimeout"
        /\ child[c].status = "killed"
        /\ result[c] = TimeoutResult(TIMEOUT)

\* C9: a call moves Idle -> Invoking -> Succeeded or Failed(kind) and no
\* other way; the precondition check fails a call from Idle, before any
\* subprocess is invoked.  No step leaves a terminal state.
C9_Lifecycle ==
    [][ \A c \in Calls :
            state'[c] # state[c] =>
                \/ state[c] = "Idle" /\ state'[c] = "Invoking"
                \/ state[c] = "Idle" /\ state'[c] = "MissingInput"
                \/ state[c] = "Invoking" /\ state'[c] \in ReturnedStates
      ]_vars

\* The part of the state that belongs to call c.
Own(c) == <<state[c], job[c], command[c], invocations[c], child[c], result[c]>>

\* C10: in every interleaving a step changes the state of one call only and
\* never node_script_path; the child of a call was started with that call's
\* own serialized input; and the result of a call is a function of its own
\* input and its own child's outcome.
C10_CallsIndependent ==
    /\ [][ /\ node_script_path' = node_script_path
           /\ \A c, d \in Calls :
                c # d => Own(c)' = Own(c) \/ Own(d)' = Own(d) ]_vars
    /\ [](\A c \in Calls :
            child[c].status # "none" =>
                child[c].argv = <<"node", "/app/handler.js",
                                  JsonText(InputOf(c), ", ", ": ")>>)
    /\ [](\A c, d \in Calls :
            ( /\ Returned(c) /\ Returned(d)
              /\ InputOf(c) = InputOf(d)
              /\ child[c] = child[d] )
                => result[c] = result[d])

\* C10 witness: one call has returned the parsed output of its child while
\* the child of another call, started for another input, is still running.
C10_Witness ==
    \E c, d \in Calls :
        /\ state[c] = "Succeeded" /\ child[c].status = "exited"
        /\ state[d] = "Invoking" /\ child[d].status = "running"
        /\ InputOf(c) # InputOf(d)

====
